---------------------------- MODULE Spec2Model ----------------------------
(***************************************************************************)
(* HyperFetch, module .hyperfetch/modules/arch.py.                         *)
(*                                                                         *)
(* get_architecture_info() asks the platform module for the architecture   *)
(* (a pair (bits, linkage)) and for the machine type and returns both in a *)
(* dict; run() calls it and prints two labelled lines.                     *)
(*                                                                         *)
(* The processes of the model are the invocations of run().  They may run  *)
(* one after the other or interleaved on one shared standard output.  The  *)
(* host (what the platform module reports) is the environment; it may      *)
(* change between any two steps.                                           *)
(* Each print call is one step: its line reaches the stream whole, so      *)
(* the lines of two invocations interleave, the characters of a line not.  *)
(*                                                                         *)
(* Python strings are sequences of characters; Python values carry their   *)
(* type in the field tag.  Program positions are named after the source    *)
(* line that is executed next.                                             *)
(***************************************************************************)
EXTENDS Naturals, Sequences, FiniteSets

\* ------------------------------------------------------------------ bounds
\* number of invocations of run()
MaxRuns == 2
\* number of times the host's reported values change
MaxHostChanges == 1

Invocations == 1..MaxRuns

\* ------------------------------------------------------------- characters
s_empty == <<>>
s_64bit == <<"6", "4", "b", "i", "t">>
s_ELF == <<"E", "L", "F">>
s_x86_64 == <<"x", "8", "6", "_", "6", "4">>

\* what the platform module reports: bits and linkage (the two components
\* of platform.architecture()) and machine (platform.machine()); each is ''
\* when the value cannot be determined
\* a host on which every value is determined, and one on which none is
Hosts ==
    { [bits |-> s_64bit, linkage |-> s_ELF, machine |-> s_x86_64],
      [bits |-> s_empty, linkage |-> s_empty, machine |-> s_empty] }

\* exceptions a platform query can raise, and a write to sys.stdout
QueryErrors == {"OSError"}
WriteErrors == {"BrokenPipeError"}
NoError == "none"

\* ---------------------------------------------------------- Python values
None == [tag |-> "NoneType", val |-> <<>>]
PyStr(s) == [tag |-> "str", val |-> s]
PyTuple(a, b) == [tag |-> "tuple", val |-> <<a, b>>]
PyDict(a, m) == [tag |-> "dict", val |-> [architecture |-> a, machine |-> m]]
Raise(e) == [tag |-> "raise", val |-> e]

IsNone(v) == v.tag = "NoneType"
IsStr(v) == v.tag = "str"
IsTuple(v) == v.tag = "tuple"
IsDict(v) == v.tag = "dict"
IsRaise(v) == v.tag = "raise"

\* v[key] for a dict v and a string key
GetItem(v, key) ==
    IF IsRaise(v) THEN v
    ELSE IF ~IsDict(v) THEN Raise("TypeError")
    ELSE IF key = "architecture" THEN v.val.architecture
    ELSE IF key = "machine" THEN v.val.machine
    ELSE Raise("KeyError")

\* v itself: the subscript [0] left out
Index0Whole(v) == v

\* v[0][0]: the first character of the first element of a tuple
Index0Twice(v) ==
    IF IsRaise(v) THEN v
    ELSE IF IsTuple(v) THEN
        IF Len(v.val[1].val) = 0 THEN Raise("IndexError")
        ELSE PyStr(<<v.val[1].val[1]>>)
    ELSE Raise("TypeError")

\* v[0]: the first element of a tuple, the first character of a string
Index0(v) ==
    IF IsRaise(v) THEN v
    ELSE IF IsTuple(v) THEN v.val[1]
    ELSE IF IsStr(v) THEN
        IF Len(v.val) = 0 THEN Raise("IndexError") ELSE PyStr(<<v.val[1]>>)
    ELSE Raise("TypeError")

\* repr() of a string
Repr(v) ==
    IF IsStr(v) THEN <<"'">> \o v.val \o <<"'">>
    ELSE IF IsNone(v) THEN <<"N", "o", "n", "e">>
    ELSE <<"?">>

\* the text an f-string puts in place of {v}: str(v)
Format(v) ==
    IF IsStr(v) THEN v.val
    ELSE IF IsNone(v) THEN <<"N", "o", "n", "e">>
    ELSE IF IsTuple(v) THEN
        <<"(">> \o Repr(v.val[1]) \o <<",", " ">> \o Repr(v.val[2]) \o <<")">>
    ELSE <<"?">>

\* ------------------------------------------------------------ the platform
platform_architecture(h) == PyTuple(PyStr(h.bits), PyStr(h.linkage))
platform_machine(h) == PyStr(h.machine)

\* a dict that holds architecture[0] instead of architecture
MakeInfoFlat(a, m) == PyDict(IF IsTuple(a) THEN a.val[1] ELSE a, m)

\* a dict with the two values under each other's key
MakeInfoSwapped(a, m) == PyDict(m, a)

\* the dict get_architecture_info returns
MakeInfo(a, m) == PyDict(a, m)


\* ------------------------------------------------------------- the output
\* colorama's Fore.GREEN and Style.RESET_ALL, one escape sequence each
Fore_GREEN == <<"ESC[32m">>
Style_RESET_ALL == <<"ESC[0m">>

ArchitectureLabel ==
    Fore_GREEN
    \o <<"A", "r", "c", "h", "i", "t", "e", "c", "t", "u", "r", "e", ":">>
    \o Style_RESET_ALL \o <<" ">>
MachineLabel ==
    Fore_GREEN \o <<"M", "a", "c", "h", "i", "n", "e", ":">>
    \o Style_RESET_ALL \o <<" ">>
Newline == <<"\n">>

\* what print writes for the f-string of line 18: the text and the line
\* terminator, or the exception the evaluation of the f-string raises
Line18(d) ==
    LET v == Index0(GetItem(d, "architecture"))
    IN  IF IsRaise(v) THEN v
        ELSE PyStr(ArchitectureLabel \o Format(v) \o Newline)

\* what print writes for the f-string of line 19
Line19(d) ==
    LET v == GetItem(d, "machine")
    IN  IF IsRaise(v) THEN v
        ELSE PyStr(MachineLabel \o Format(v) \o Newline)

\* a write that lands before what the stream already holds
WritePrepend(out, i, text) == <<[by |-> i, text |-> text]>> \o out

\* one write of invocation i to the shared stream
Write(out, i, text) == Append(out, [by |-> i, text |-> text])

\* ------------------------------------------------------------ control flow
\* the machine type queried only after the first line is printed
SuccLazyMachine(p) ==
    CASE p = "idle" -> "L8"
      [] p = "L8" -> "L11"
      [] p = "L11" -> "L18"
      [] p = "L18" -> "L9"
      [] p = "L9" -> "L19"
      [] p = "L19" -> "done"
      [] OTHER -> p

\* the position after the statement at position p completes normally
Succ(p) ==
    CASE p = "idle" -> "L8"
      [] p = "L8" -> "L9"
      [] p = "L9" -> "L11"
      [] p = "L11" -> "L18"
      [] p = "L18" -> "L19"
      [] p = "L19" -> "done"
      [] OTHER -> p

\* an except clause that swallows e and goes on with the next statement
UnwindContinue(p, e) == [pc |-> Succ(p), err |-> NoError]

\* an except clause that swallows e and runs the statement again
UnwindRetry(p, e) == [pc |-> p, err |-> NoError]

\* where an exception e raised at position p takes run(): no statement of
\* either function is inside a try, so it leaves run() with e
Unwind(p, e) == [pc |-> "raised", err |-> e]

\* a value kept from the first call and handed to every later one
BindCached(store, i, v) ==
    IF \E j \in DOMAIN store : ~IsNone(store[j])
    THEN [store EXCEPT ![i] = store[CHOOSE j \in DOMAIN store : ~IsNone(store[j])]]
    ELSE [store EXCEPT ![i] = v]

\* one variable shared by all invocations
BindShared(store, i, v) == [j \in DOMAIN store |-> v]

\* assignment of v to a local variable of invocation i
Bind(store, i, v) == [store EXCEPT ![i] = v]

\* ------------------------------------------------------------------ state
VARIABLES
    host,          \* what the platform module reports now
    changes,       \* how often the host's values have changed
    pc,            \* pc[i]: position of invocation i
    architecture,  \* architecture[i]: local of get_architecture_info
    machine,       \* machine[i]: local of get_architecture_info
    info,          \* info[i]: local of run
    err,           \* err[i]: the exception run() ended in
    stdout,        \* the writes made to sys.stdout, oldest first
    fresh,         \* history: host unchanged since i entered the collector
    raisedIn,      \* history: the exception raised inside invocation i
    raisedAt       \* history: the position at which it was raised

vars == <<host, changes, pc, architecture, machine, info, err, stdout,
          fresh, raisedIn, raisedAt>>

Init ==
    /\ host \in Hosts
    /\ changes = 0
    /\ pc = [i \in Invocations |-> "idle"]
    /\ architecture = [i \in Invocations |-> None]
    /\ machine = [i \in Invocations |-> None]
    /\ info = [i \in Invocations |-> None]
    /\ err = [i \in Invocations |-> NoError]
    /\ stdout = <<>>
    /\ fresh = [i \in Invocations |-> FALSE]
    /\ raisedIn = [i \in Invocations |-> NoError]
    /\ raisedAt = [i \in Invocations |-> "nowhere"]

\* an exception e raised at the current position of invocation i
Throw(i, e) ==
    LET u == Unwind(pc[i], e)
    IN  /\ pc' = [pc EXCEPT ![i] = u.pc]
        /\ err' = [err EXCEPT ![i] = u.err]
        /\ raisedIn' = [raisedIn EXCEPT ![i] = e]
        /\ raisedAt' = [raisedAt EXCEPT ![i] = pc[i]]

Step(i) ==
    /\ pc' = [pc EXCEPT ![i] = Succ(pc[i])]
    /\ UNCHANGED <<err, raisedIn, raisedAt>>

\* run() is called and calls get_architecture_info()
Call(i) ==
    /\ pc[i] = "idle"
    /\ Step(i)
    /\ fresh' = [fresh EXCEPT ![i] = TRUE]
    /\ UNCHANGED <<host, changes, architecture, machine, info, stdout>>

\* architecture = platform.architecture()
QueryArchitecture(i) ==
    /\ pc[i] = "L8"
    /\ architecture' = Bind(architecture, i, platform_architecture(host))
    /\ Step(i)
    /\ UNCHANGED <<host, changes, machine, info, stdout, fresh>>

\* machine = platform.machine()
QueryMachine(i) ==
    /\ pc[i] = "L9"
    /\ machine' = Bind(machine, i, platform_machine(host))
    /\ Step(i)
    /\ UNCHANGED <<host, changes, architecture, info, stdout, fresh>>

\* a platform query raises
QueryRaises(i) ==
    /\ pc[i] \in {"L8", "L9"}
    /\ \E e \in QueryErrors : Throw(i, e)
    /\ UNCHANGED <<host, changes, architecture, machine, info, stdout, fresh>>

\* return {...}; info = the returned dict
Return(i) ==
    /\ pc[i] = "L11"
    /\ info' = Bind(info, i, MakeInfo(architecture[i], machine[i]))
    /\ Step(i)
    /\ UNCHANGED <<host, changes, architecture, machine, stdout, fresh>>

\* print(f'...'): the f-string is evaluated and the line written, in one
\* write to the stream
PrintText(i) ==
    /\ pc[i] \in {"L18", "L19"}
    /\ LET t == IF pc[i] = "L18" THEN Line18(info[i]) ELSE Line19(info[i])
       IN  IF IsRaise(t)
           THEN Throw(i, t.val) /\ UNCHANGED stdout
           ELSE Step(i) /\ stdout' = Write(stdout, i, t.val)
    /\ UNCHANGED <<host, changes, architecture, machine, info, fresh>>

\* a write to sys.stdout raises (the stream is closed or unwritable)
WriteRaises(i) ==
    /\ pc[i] \in {"L18", "L19"}
    /\ ~IsRaise(IF pc[i] = "L18" THEN Line18(info[i]) ELSE Line19(info[i]))
    /\ \E e \in WriteErrors : Throw(i, e)
    /\ UNCHANGED <<host, changes, architecture, machine, info, stdout, fresh>>

\* the environment: the host's reported values change
HostChange ==
    /\ changes < MaxHostChanges
    /\ changes' = changes + 1
    /\ \E h \in Hosts \ {host} : host' = h
    /\ fresh' = [i \in Invocations |-> FALSE]
    /\ UNCHANGED <<pc, architecture, machine, info, err, stdout, raisedIn,
                   raisedAt>>

Next ==
    \/ \E i \in Invocations :
        \/ Call(i)
        \/ QueryArchitecture(i)
        \/ QueryMachine(i)
        \/ QueryRaises(i)
        \/ Return(i)
        \/ PrintText(i)
        \/ WriteRaises(i)
    \/ HostChange

Spec == Init /\ [][Next]_vars


\* ------------------------------------------------------------------ views
\* get_architecture_info() has returned to invocation i
Collected(i) ==
    \/ pc[i] \in {"L18", "L19", "done"}
    \/ pc[i] = "raised" /\ raisedAt[i] \in {"L18", "L19"}

\* the texts invocation i has written, in the order of the stream
Texts(i) ==
    LET own(c) == c.by = i
        cs == SelectSeq(stdout, own)
    IN  [k \in 1..Len(cs) |-> cs[k].text]

ArchitectureField(i) == info[i].val.architecture
MachineField(i) == info[i].val.machine

\* --------------------------------------------------------------------- C1
\* C1 as stated: a completed run() has written exactly two lines, the
\* Architecture line then the Machine line, and the value of each line is
\* the corresponding field of the record, verbatim.
C1_ValueIsField ==
    \A i \in Invocations :
        pc[i] = "done" =>
            /\ Len(Texts(i)) = 2
            /\ IsStr(ArchitectureField(i))
            /\ Texts(i)[1]
                 = ArchitectureLabel \o ArchitectureField(i).val \o Newline
            /\ IsStr(MachineField(i))
            /\ Texts(i)[2] = MachineLabel \o MachineField(i).val \o Newline

\* C1 amended: a completed run() has written exactly two lines, the
\* Architecture line then the Machine line (and no invocation ever more than
\* two); the value of the Architecture line is the first component (bits)
\* of the record's architecture pair, verbatim, and the value of the Machine
\* line is the record's machine field, verbatim.
C1_ValueIsBitsComponent ==
    \A i \in Invocations :
        /\ Len(Texts(i)) <= 2
        /\ pc[i] = "done" =>
            /\ Len(Texts(i)) = 2
            /\ IsTuple(ArchitectureField(i))
            /\ IsStr(ArchitectureField(i).val[1])
            /\ Texts(i)[1]
                 = ArchitectureLabel \o ArchitectureField(i).val[1].val
                     \o Newline
            /\ IsStr(MachineField(i))
            /\ Texts(i)[2] = MachineLabel \o MachineField(i).val \o Newline

C1_Witness ==
    \E i \in Invocations :
        /\ pc[i] = "done"
        /\ Len(Texts(i)) = 2
        /\ ArchitectureField(i).val[1].val = s_64bit
        /\ MachineField(i).val = s_x86_64

\* --------------------------------------------------------------------- C2
\* C2: the two print statements raise nothing of their own for any values
\* the record holds, the empty string included: the f-string of the line to
\* print always evaluates, the only exception raised at a print is a failed
\* write, a run() that is done ended without error, and with an empty
\* machine value the second line is 'Machine: ' with nothing after it.
C2_ReportNeverRaises ==
    \A i \in Invocations :
        /\ pc[i] = "L18" => ~IsRaise(Line18(info[i]))
        /\ pc[i] = "L19" => ~IsRaise(Line19(info[i]))
        /\ raisedAt[i] \in {"L18", "L19"} => raisedIn[i] \in WriteErrors
        /\ pc[i] = "done" =>
            /\ err[i] = NoError
            /\ MachineField(i) = PyStr(s_empty) =>
                 /\ Len(Texts(i)) = 2
                 /\ Texts(i)[2] = MachineLabel \o Newline

C2_Witness ==
    \E i \in Invocations :
        /\ pc[i] = "done"
        /\ MachineField(i) = PyStr(s_empty)
        /\ ArchitectureField(i).val[1] = PyStr(s_empty)
        /\ Texts(i) = <<ArchitectureLabel \o Newline, MachineLabel \o Newline>>

\* --------------------------------------------------------------------- C3
\* C3 as stated: both fields of the record get_architecture_info returns
\* are strings.
C3_BothFieldsStrings ==
    \A i \in Invocations :
        Collected(i) =>
            /\ IsDict(info[i])
            /\ IsStr(ArchitectureField(i))
            /\ IsStr(MachineField(i))

\* C3 amended: in the record get_architecture_info returns, the machine
\* field is a string and the architecture field is a pair of two strings
\* (bits, linkage); each string may be empty and none is None.
C3_PairAndString ==
    \A i \in Invocations :
        Collected(i) =>
            /\ IsDict(info[i])
            /\ IsTuple(ArchitectureField(i))
            /\ Len(ArchitectureField(i).val) = 2
            /\ IsStr(ArchitectureField(i).val[1])
            /\ IsStr(ArchitectureField(i).val[2])
            /\ IsStr(MachineField(i))

C3_Witness ==
    \E i \in Invocations :
        /\ Collected(i)
        /\ MachineField(i) = PyStr(s_empty)
        /\ ArchitectureField(i) = PyTuple(PyStr(s_64bit), PyStr(s_ELF))

\* --------------------------------------------------------------------- C4
\* C4 as stated: on a host that reports bits b and machine m (unchanged
\* during the call) the returned record's architecture field is b and its
\* machine field is m, and run() prints 'Architecture: b', 'Machine: m'.
C4_RecordHoldsBits ==
    \A i \in Invocations :
        (Collected(i) /\ fresh[i]) =>
            /\ IsStr(ArchitectureField(i))
            /\ ArchitectureField(i).val = host.bits
            /\ MachineField(i) = PyStr(host.machine)

\* C4 amended: on a host that reports the architecture pair (b, l) and the
\* machine m (unchanged during the call), empty values included, the
\* returned record's architecture field is the pair (b, l) and its machine
\* field is m; get_architecture_info raises only if a platform query
\* raises; and a run() that is done has printed 'Architecture: b' and then
\* 'Machine: m'.
C4_PassThrough ==
    \A i \in Invocations :
        /\ raisedAt[i] \in {"L8", "L9", "L11"} => raisedIn[i] \in QueryErrors
        /\ (Collected(i) /\ fresh[i]) =>
            /\ IsTuple(ArchitectureField(i))
            /\ ArchitectureField(i).val = <<PyStr(host.bits), PyStr(host.linkage)>>
            /\ MachineField(i) = PyStr(host.machine)
        /\ (pc[i] = "done" /\ fresh[i]) =>
            Texts(i) = << ArchitectureLabel \o host.bits \o Newline,
                          MachineLabel \o host.machine \o Newline >>

C4_Witness ==
    \E i \in Invocations :
        /\ pc[i] = "done"
        /\ fresh[i]
        /\ host.bits = s_64bit
        /\ host.machine = s_x86_64
        /\ Len(Texts(i)) = 2

\* --------------------------------------------------------------------- C5
\* C5: a call that ran on an unchanged host returned exactly the record of
\* the host's current values, whatever earlier calls returned, and two
\* such calls returned identical records.
C5_DependsOnHostOnly ==
    \A i, j \in Invocations :
        (Collected(i) /\ fresh[i]) =>
            /\ info[i] = PyDict(PyTuple(PyStr(host.bits), PyStr(host.linkage)),
                                PyStr(host.machine))
            /\ (Collected(j) /\ fresh[j]) => info[j] = info[i]

\* an earlier call returned other values before the host changed
C5_Witness ==
    \E i, j \in Invocations :
        /\ i # j
        /\ Collected(j) /\ ~fresh[j]
        /\ Collected(i) /\ fresh[i]
        /\ changes > 0
        /\ info[i] # info[j]

\* --------------------------------------------------------------------- C6
\* C6: a step of get_architecture_info (its call, a query, a query that
\* raises, its return) writes nothing to standard output, leaves the host
\* unchanged and leaves every record returned to another invocation
\* unchanged.
C6_CollectReadOnly ==
    [][ \A i \in Invocations :
          (pc[i] \in {"idle", "L8", "L9", "L11"} /\ pc'[i] # pc[i]) =>
              /\ stdout' = stdout
              /\ host' = host
              /\ \A j \in Invocations \ {i} :
                    IsDict(info[j]) => info'[j] = info[j] ]_vars

\* a second call has returned other values while the first record exists
C6_Witness ==
    \E i, j \in Invocations :
        /\ i # j
        /\ pc[j] = "done"
        /\ pc[i] = "L18"
        /\ info[i] # info[j]
        /\ Len(stdout) = 2

\* --------------------------------------------------------------------- C7
\* C7: once a platform query has raised in an invocation, run() has ended
\* in exactly that exception: it is not at any statement again (no retry),
\* it holds no record and it has written no line (no substitute value).
C7_QueryFailurePropagates ==
    \A i \in Invocations :
        (raisedIn[i] \in QueryErrors /\ raisedAt[i] \in {"L8", "L9"}) =>
            /\ pc[i] = "raised"
            /\ err[i] = raisedIn[i]
            /\ IsNone(info[i])
            /\ Texts(i) = <<>>

C7_Witness ==
    \E i \in Invocations :
        /\ raisedAt[i] = "L9"
        /\ raisedIn[i] \in QueryErrors
        /\ ~IsNone(architecture[i])

\* --------------------------------------------------------------------- C8
\* C8: once a write to standard output has raised in an invocation, run()
\* has ended in exactly that exception; if it was the write of the
\* Architecture line the invocation has written nothing (the Machine line
\* is never written), and if it was the write of the Machine line the
\* invocation has written its Architecture line only (no retry).
C8_WriteFailurePropagates ==
    \A i \in Invocations :
        raisedIn[i] \in WriteErrors =>
            /\ pc[i] = "raised"
            /\ err[i] = raisedIn[i]
            /\ raisedAt[i] \in {"L18", "L19"}
            /\ raisedAt[i] = "L18" => Texts(i) = <<>>
            /\ raisedAt[i] = "L19" => Texts(i) = <<Line18(info[i]).val>>

C8_Witness ==
    \E i, j \in Invocations :
        /\ raisedAt[i] = "L18" /\ raisedIn[i] \in WriteErrors
        /\ raisedAt[j] = "L19" /\ raisedIn[j] \in WriteErrors

\* --------------------------------------------------------------------- C9
\* C9: in every interleaving the stream holds at most two lines of each
\* invocation, the first line of an invocation in the stream is its
\* Architecture line, of any two lines of one invocation the earlier in the
\* stream is its Architecture line and the later its Machine line, and an
\* invocation that is done has exactly its two lines in the stream.
C9_OwnLinesInOrder ==
    \A i \in Invocations :
        /\ Len(Texts(i)) <= 2
        /\ pc[i] = "done" => Len(Texts(i)) = 2
        /\ Len(Texts(i)) >= 1 => Texts(i)[1] = Line18(info[i]).val
        /\ \A p, q \in 1..Len(stdout) :
              (p < q /\ stdout[p].by = i /\ stdout[q].by = i) =>
                  /\ stdout[p].text = Line18(info[i]).val
                  /\ stdout[q].text = Line19(info[i]).val

\* a line of one invocation between the two lines of the other
C9_Witness ==
    \E p, q, r \in 1..Len(stdout) :
        /\ p < q /\ q < r
        /\ stdout[p].by = stdout[r].by
        /\ stdout[q].by # stdout[p].by
        /\ SubSeq(stdout[p].text, 1, Len(ArchitectureLabel)) = ArchitectureLabel
        /\ SubSeq(stdout[r].text, 1, Len(MachineLabel)) = MachineLabel

\* -------------------------------------------------------------------- C10
\* C10: the machine query never precedes the architecture query; whenever
\* the stream holds a line of an invocation, both fields of its record are
\* populated; and an invocation in which a platform query raised has
\* written no line.
C10_QueriesBeforeOutput ==
    \A i \in Invocations :
        /\ ~IsNone(machine[i]) => ~IsNone(architecture[i])
        /\ Texts(i) # <<>> =>
              /\ IsDict(info[i])
              /\ ~IsNone(ArchitectureField(i))
              /\ ~IsNone(MachineField(i))
        /\ raisedAt[i] \in {"L8", "L9"} => Texts(i) = <<>>

C10_Witness ==
    \E i, j \in Invocations :
        /\ Len(Texts(i)) = 1
        /\ pc[i] = "L19"
        /\ raisedAt[j] = "L9"
        /\ Texts(j) = <<>>

=============================================================================
